---------------------------- MODULE Spec2Model ----------------------------
(***************************************************************************)
(* Model of the gateway supervisor and brokerage mediator of main.py: the  *)
(* /gateway/start handler with its readiness polling loop, the /health     *)
(* query, the gateway-gated data endpoints, the two order endpoints, the   *)
(* websocket quote loop and the shutdown of the app; and of the start and  *)
(* data handlers of main_simple.py and main_simplified.py.  Every await of *)
(* a handler is a suspension point: the code between two awaits is one     *)
(* atomic action (asyncio runs the handlers of one service instance on one *)
(* event loop).                                                            *)
(***************************************************************************)
EXTENDS Integers, Sequences, FiniteSets, TLC

VARIABLES
    gateway_process,  \* main.py:20  0 is None, else the pid of the last Popen
    gateway_ready,    \* main.py:21
    procs,            \* the child processes spawned so far, by pid
    env_file,         \* /tmp/ibeam.env: {} before a write, then {its content}
    req,              \* the in-flight /gateway/start handlers, by request slot
    last_health,      \* the body of the last /health response
    op,               \* the HTTP data or order request being served (one at
                      \* a time: the handlers share gateway_ready only)
    conns,            \* the websocket connections of /ws/marketdata
    serving,          \* FALSE once the lifespan of the app has shut down
    session_data,     \* main_simple.py:26 session_data and
                      \* main_simplified.py:21 stored_credentials
    program           \* which of the service variants is running

vars ==
    <<gateway_process, gateway_ready, procs, env_file, req, last_health, op,
      conns, serving, session_data, program>>

\* What the requests and the websocket loops never write.
fixedVars == <<serving, session_data, program>>

gatewayVars == <<gateway_process, gateway_ready, procs, env_file>>

-----------------------------------------------------------------------------
(* Bounds of the model and constants of the program.                       *)

\* Popen calls explored in one behaviour.
MaxStarts == 2

\* main.py:119
max_attempts == 90

\* The request slots of /gateway/start: Solo is one client calling start
\* again and again, Duo is two clients whose calls may overlap.
Solo == {"r1"}
Duo == {"r1", "r2"}
Slots == Duo

\* The credential bodies posted to /gateway/start (account is Optional).
Creds ==
    { [username |-> "u1", password |-> "p1", account |-> "none"],
      [username |-> "u2", password |-> "p2", account |-> "DU1"] }

OneCred == {c \in Creds : c.username = "u1"}

\* What the probe of /v1/api/iserver/auth/status can come back with: an
\* exception (connection refused, timeout after 5 s, bad JSON), a non-200
\* status, or 200 with the two flags read by the handler.
ProbeResponses ==
    { [status |-> "exception", authenticated |-> FALSE, competing |-> FALSE],
      [status |-> "503", authenticated |-> FALSE, competing |-> FALSE] }
    \cup { [status |-> "200", authenticated |-> a, competing |-> c] :
             a \in BOOLEAN, c \in BOOLEAN }

\* One answer of each verdict, for the specification of overlapping starts.
ConcResponses ==
    {resp \in ProbeResponses : resp.status # "503" /\ ~(resp.authenticated /\ resp.competing)}

\* What can go wrong before the loop: the open() of the env file raises, or
\* Popen raises (no python, no memory).
StartFaults == {"none", "write", "popen"}

-----------------------------------------------------------------------------
(* /gateway/start                                                          *)

\* main.py:88-92: the text written to /tmp/ibeam.env.
EnvContent(c) ==
    [IBEAM_ACCOUNT |-> c.username,
     IBEAM_PASSWORD |-> c.password,
     paper |-> (c.account # "none")]

\* main.py:98-104: the environment handed to the child.
ChildEnv(c) == [IBEAM_ACCOUNT |-> c.username, IBEAM_PASSWORD |-> c.password]

\* main.py:108-113: Popen appends a running child; its pid is its index.
\* stdout and stderr are pipes (main.py:111-112); out is the output of the
\* child that sits unread in them.
Popen(c) == Append(procs, [alive |-> TRUE, env |-> ChildEnv(c), out |-> 0])

\* A loop that reads the competing flag only and keeps polling after an
\* authenticated answer.
ProbeVerdictIgnoresAuth(resp) ==
    IF resp.status = "200" /\ resp.competing THEN "error" ELSE "retry"

\* A loop that reads the competing flag before the authenticated flag.
ProbeVerdictCompetingFirst(resp) ==
    IF resp.status = "200"
    THEN IF resp.competing THEN "error"
         ELSE IF resp.authenticated THEN "ready"
         ELSE "retry"
    ELSE "retry"

\* main.py:121-142: what one probe response makes the loop do.
ProbeVerdict(resp) ==
    IF resp.status = "exception" THEN "retry"
    ELSE IF resp.status = "200"
         THEN IF resp.authenticated THEN "ready"
              ELSE IF resp.competing THEN "error"
              ELSE "retry"
         ELSE "retry"

\* A loop that runs one iteration too many.
LoopContinuesOffByOne(i) == i <= max_attempts

\* main.py:120: for i in range(max_attempts), asked after iteration i-1.
LoopContinues(i) == i < max_attempts

\* No probe has answered yet.
NoResponse == [status |-> "none", authenticated |-> FALSE, competing |-> FALSE]

\* A /gateway/start handler: pc is where it is suspended, i the loop index,
\* probes and sleeps the probes sent and the sleeps begun, last the latest
\* probe answer, result the status returned, pid the child it spawned.
IdleReq ==
    [pc |-> "idle", i |-> 0, probes |-> 0, sleeps |-> 0, last |-> NoResponse,
     result |-> "none", pid |-> 0]

Polling(r) == req[r].pc \in {"probe", "sleep"}

\* main.py:78-124: the handler up to its first await.  The env file is
\* written, the child is spawned and bound to gateway_process, and the first
\* probe is sent.  An exception is turned into HTTP 500 (main.py:148-150).
StartGateway(r, c, fault) ==
    /\ serving
    /\ req[r].pc \in {"idle", "done"}
    /\ Len(procs) < MaxStarts
    /\ IF fault = "write"
       THEN /\ req' = [req EXCEPT ![r] = [IdleReq EXCEPT
                         !.pc = "done", !.result = "http500"]]
            /\ UNCHANGED <<gateway_process, procs, env_file>>
       ELSE IF fault = "popen"
       THEN /\ env_file' = {EnvContent(c)}
            /\ req' = [req EXCEPT ![r] = [IdleReq EXCEPT
                         !.pc = "done", !.result = "http500"]]
            /\ UNCHANGED <<gateway_process, procs>>
       ELSE /\ env_file' = {EnvContent(c)}
            /\ procs' = Popen(c)
            /\ gateway_process' = Len(procs) + 1
            /\ req' = [req EXCEPT ![r] = [IdleReq EXCEPT
                         !.pc = "probe", !.probes = 1, !.pid = Len(procs) + 1]]
    /\ UNCHANGED <<gateway_ready, last_health, op, conns, fixedVars>>

\* main.py:124-144: the probe's await returns (or raises).
ProbeReturn(r, resp) ==
    /\ serving
    /\ req[r].pc = "probe"
    /\ LET v == ProbeVerdict(resp) IN
       /\ req' = [req EXCEPT ![r] =
                    IF v = "retry"
                    THEN [@ EXCEPT !.pc = "sleep", !.sleeps = @ + 1, !.last = resp]
                    ELSE [@ EXCEPT !.pc = "done", !.last = resp, !.result = v]]
       /\ gateway_ready' = IF v = "ready" THEN TRUE ELSE gateway_ready
    /\ UNCHANGED <<gateway_process, procs, env_file, last_health, op, conns, fixedVars>>

\* main.py:144-146 and 120: asyncio.sleep(2) returns; the next iteration
\* sends its probe, or the loop is exhausted and start returns timeout.
SleepDone(r) ==
    /\ serving
    /\ req[r].pc = "sleep"
    /\ req' = [req EXCEPT ![r] =
                 IF LoopContinues(@.i + 1)
                 THEN [@ EXCEPT !.pc = "probe", !.i = @ + 1, !.probes = @ + 1]
                 ELSE [@ EXCEPT !.pc = "done", !.i = @ + 1, !.result = "timeout"]]
    /\ UNCHANGED <<gateway_process, gateway_ready, procs, env_file,
                   last_health, op, conns, fixedVars>>

\* The environment: a running child exits on its own (bad credentials, a
\* crash).  Nothing in main.py polls or waits for it.
ChildExit(p) ==
    /\ p \in 1..Len(procs)
    /\ procs[p].alive
    /\ procs' = [procs EXCEPT ![p].alive = FALSE]
    /\ UNCHANGED <<gateway_process, gateway_ready, env_file, req,
                   last_health, op, conns, fixedVars>>

\* What the pipes of a child hold before a write blocks, in units of output.
PipeCapacity == 2

\* The environment: a running child writes to its stdout or stderr pipe
\* (main.py:111-112).  The write goes through while the pipe has room;
\* no statement of main.py reads either pipe, so nothing makes room.
ChildWrites(p) ==
    /\ p \in 1..Len(procs)
    /\ procs[p].alive
    /\ procs[p].out < PipeCapacity
    /\ procs' = [procs EXCEPT ![p].out = @ + 1]
    /\ UNCHANGED <<gateway_process, gateway_ready, env_file, req,
                   last_health, op, conns, fixedVars>>

\* A running child whose pipe is full: its next write does not return.
Blocked(p) ==
    /\ p \in 1..Len(procs)
    /\ procs[p].alive
    /\ procs[p].out = PipeCapacity

\* main.py:72-74
Health ==
    /\ serving
    /\ last_health' = {[status |-> "healthy", gateway_ready |-> gateway_ready]}
    /\ UNCHANGED <<gateway_process, gateway_ready, procs, env_file, req, op, conns, fixedVars>>

Alive == {p \in 1..Len(procs) : procs[p].alive}

-----------------------------------------------------------------------------
(* The data endpoints and the order endpoints                              *)

\* Optional[float] of the request models: <<>> is None, <<x>> is the value x.
None == <<>>

\* Python truthiness of an Optional[float]: None and 0.0 are both falsy.
Truthy(p) == p # None /\ p[1] # 0

OrderTypes == {"MARKET", "LIMIT", "STOP", "STOP_LIMIT", "TRAIL"}
Sides == {"BUY", "SELL", "HOLD"}
Quantities == {-1, 0, 10}
Prices == {None, <<0>>, <<150>>}

\* main.py:29-36: the bodies pydantic accepts for /order/stock.  order_type
\* and side are plain str, quantity any int, the prices Optional[float].
StockOrders ==
    [kind : {"stock_order"}, symbol : {"AAPL"}, quantity : Quantities,
     order_type : OrderTypes, side : Sides, limit_price : Prices,
     stop_price : Prices, time_in_force : {"GTC"}]

\* main.py:38-46: the bodies pydantic accepts for /order/option.  The model
\* has no stop_price and no time_in_force field.
OptionOrders ==
    [kind : {"option_order"}, symbol : {"AAPL"}, expiry : {"20251219"},
     strike : {150}, right : {"C"}, quantity : Quantities,
     order_type : OrderTypes, side : Sides, limit_price : Prices]

Orders == StockOrders \cup OptionOrders

\* The requests without a body of their own.
NoOrder == [kind |-> "none"]

\* Two well-formed orders, for the specifications that are not about orders.
SampleOrders ==
    { o \in Orders : /\ o.quantity = 10 /\ o.side = "BUY"
                     /\ o.order_type = "LIMIT" /\ o.limit_price = <<150>>
                     /\ (o.kind = "stock_order" => o.stop_price = None) }

DataKinds == {"account", "positions", "options_search", "option_chain", "market_data"}
OrderKinds == {"stock_order", "option_order"}

\* What the upstream gateway answers: an exception stands for any failure of
\* the HTTP call, a sequence for the JSON list of the body.
AccountLists == {<<>>, <<"DU1">>, <<"DU1", "DU2">>}
SearchLists == {<<>>, <<265598>>, <<4815747, 8314>>}
SubmitReplies == {"accepted", "rejected"}

\* A readiness gate that lets every request through.
EnsureReadyAlways(ready) == TRUE

\* main.py:155, 165, 182, 206, 230, 281, 333: if not gateway_ready: raise 503.
EnsureReady(ready) == ready

\* The first upstream call of each handler (main.py:159, 170, 187, 211, 235,
\* 286, 338).
FirstCall(kind) ==
    IF kind \in {"account", "positions", "stock_order", "option_order"}
    THEN "accounts" ELSE "search"

\* The second upstream GET of the handlers that make one (main.py:175, 196,
\* 220, 350).
SecondCall(kind) ==
    CASE kind = "positions" -> "positions"
      [] kind = "options_search" -> "option-chains"
      [] kind = "option_chain" -> "strikes"
      [] OTHER -> "snapshot"

\* main.py:246 and 295-300: the symbol parameter of the contract search.
SearchQuery(kind, order, symbol) ==
    IF kind = "option_order"
    THEN <<order.symbol, order.expiry, order.right, order.strike>>
    ELSE IF kind = "stock_order" THEN <<order.symbol>>
    ELSE <<symbol>>

\* main.py:255-268 and 309-320: order_data.  A price key is added only for
\* a truthy price; the option payload has a fixed tif and no auxPrice.
BuildOrder(order, account_id, conid) ==
    LET base == [acctId |-> account_id, conid |-> conid,
                 orderType |-> order.order_type, side |-> order.side,
                 quantity |-> order.quantity,
                 tif |-> IF order.kind = "stock_order"
                         THEN order.time_in_force ELSE "DAY"]
        withPrice == IF Truthy(order.limit_price)
                     THEN [k \in DOMAIN base \cup {"price"} |->
                             IF k = "price" THEN order.limit_price[1] ELSE base[k]]
                     ELSE base
    IN  IF order.kind = "stock_order" /\ Truthy(order.stop_price)
        THEN [k \in DOMAIN withPrice \cup {"auxPrice"} |->
                IF k = "auxPrice" THEN order.stop_price[1] ELSE withPrice[k]]
        ELSE withPrice

NoPayload == [acctId |-> "none"]

IdleOp ==
    [kind |-> "none", pc |-> "idle", order |-> NoOrder, symbol |-> "none",
     gate |-> FALSE, calls |-> <<>>, acct |-> "none", conid |-> 0,
     query |-> <<>>, payload |-> NoPayload, result |-> "none"]

OpFree == op.pc \in {"idle", "done"}

\* The handler of a request up to its first await: the readiness check, then
\* the first upstream GET.  HTTPException(503) ends it before any call.
Enter(kind, order, symbol) ==
    LET o == [IdleOp EXCEPT !.kind = kind, !.order = order, !.symbol = symbol,
                            !.gate = EnsureReady(gateway_ready)]
    IN  IF o.gate
        THEN [o EXCEPT !.pc = FirstCall(kind), !.calls = <<FirstCall(kind)>>,
                       !.query = IF FirstCall(kind) = "search"
                                 THEN SearchQuery(kind, order, symbol) ELSE <<>>]
        ELSE [o EXCEPT !.pc = "done", !.result = "503 Gateway not ready"]

\* main.py:153-156, 163-166, 180-183, 204-207, 331-334: a data endpoint is
\* called over HTTP.
BeginData(kind, symbol) ==
    /\ serving
    /\ OpFree
    /\ op' = Enter(kind, NoOrder, symbol)
    /\ UNCHANGED <<gateway_process, gateway_ready, procs, env_file, req,
                   last_health, conns, fixedVars>>

\* main.py:228-231 and 279-282: an order endpoint is called.
BeginOrder(order) ==
    /\ serving
    /\ OpFree
    /\ op' = Enter(order.kind, order, order.symbol)
    /\ UNCHANGED <<gateway_process, gateway_ready, procs, env_file, req,
                   last_health, conns, fixedVars>>

\* How a request ends for its caller: FastAPI answers the HTTP request, the
\* websocket loop gets the quote or the exception.
Finish(o, result) == [o EXCEPT !.pc = "done", !.result = result]

\* An upstream call raises.
Failed(o) == Finish(o, "500 upstream failure")

\* main.py:159-160, 170-177, 235-247, 286-301: /portfolio/accounts answers.
AfterAccounts(o, accounts) ==
    IF o.kind = "account" THEN Finish(o, "200")
    ELSE IF o.kind = "positions"
    THEN IF accounts # <<>>
         THEN [o EXCEPT !.acct = accounts[1], !.pc = "second",
                        !.calls = Append(@, SecondCall(o.kind))]
         ELSE Finish(o, "200")
    ELSE IF accounts = <<>>
         THEN Finish(o, "404 No accounts found")
         ELSE [o EXCEPT !.acct = accounts[1], !.pc = "search",
                        !.calls = Append(@, "search"),
                        !.query = SearchQuery(o.kind, o.order, o.symbol)]

\* main.py:191-201, 215-225, 248-274, 302-326, 342-353: /secdef/search
\* answers.  The first match is taken; an order is built and posted.
AfterSearch(o, results) ==
    IF o.kind \in {"options_search", "option_chain"}
    THEN IF results # <<>>
         THEN [o EXCEPT !.conid = results[1], !.pc = "second",
                        !.calls = Append(@, SecondCall(o.kind))]
         ELSE Finish(o, "200")
    ELSE IF results = <<>>
    THEN Finish(o, IF o.kind = "option_order"
                   THEN "404 Option contract not found"
                   ELSE "404 Symbol not found")
    ELSE IF o.kind \in OrderKinds
    THEN [o EXCEPT !.conid = results[1], !.pc = "submit",
                   !.calls = Append(@, "orders"),
                   !.payload = BuildOrder(o.order, o.acct, results[1])]
    ELSE [o EXCEPT !.conid = results[1], !.pc = "second",
                   !.calls = Append(@, SecondCall(o.kind))]

\* An upstream call of an HTTP handler raises: FastAPI answers 500.
UpstreamFails ==
    /\ serving
    /\ op.pc \in {"accounts", "search", "second", "submit"}
    /\ op' = Failed(op)
    /\ UNCHANGED <<gateway_process, gateway_ready, procs, env_file, req,
                   last_health, conns, fixedVars>>

AccountsReturn(accounts) ==
    /\ serving
    /\ op.pc = "accounts"
    /\ op' = AfterAccounts(op, accounts)
    /\ UNCHANGED <<gateway_process, gateway_ready, procs, env_file, req,
                   last_health, conns, fixedVars>>

SearchReturn(results) ==
    /\ serving
    /\ op.pc = "search"
    /\ op' = AfterSearch(op, results)
    /\ UNCHANGED <<gateway_process, gateway_ready, procs, env_file, req,
                   last_health, conns, fixedVars>>

\* main.py:176, 200, 224, 355: the second GET answers and its JSON is
\* returned.
SecondReturn ==
    /\ serving
    /\ op.pc = "second"
    /\ op' = Finish(op, "200")
    /\ UNCHANGED <<gateway_process, gateway_ready, procs, env_file, req,
                   last_health, conns, fixedVars>>

\* A handler that posts the order again when the gateway rejects it.
SubmitReturnRetries(reply) ==
    /\ serving
    /\ op.pc = "submit"
    /\ op' = IF reply = "rejected" /\ Len(op.calls) < 4
             THEN [op EXCEPT !.calls = Append(@, "orders")]
             ELSE Finish(op, reply)
    /\ UNCHANGED <<gateway_process, gateway_ready, procs, env_file, req,
                   last_health, conns, fixedVars>>

\* main.py:271-276 and 323-328: the POST answers; its JSON is returned as it
\* is, whatever it says.
SubmitReturn(reply) ==
    /\ serving
    /\ op.pc = "submit"
    /\ op' = Finish(op, reply)
    /\ UNCHANGED <<gateway_process, gateway_ready, procs, env_file, req,
                   last_health, conns, fixedVars>>

OpStep(O) ==
    \/ \E k \in DataKinds : BeginData(k, "AAPL")
    \/ \E o \in O : BeginOrder(o)
    \/ UpstreamFails
    \/ \E a \in AccountLists : AccountsReturn(a)
    \/ \E s \in SearchLists : SearchReturn(s)
    \/ SecondReturn
    \/ \E reply \in SubmitReplies : SubmitReturn(reply)

-----------------------------------------------------------------------------
(* The websocket quote loop, main.py:358-378                               *)

Conns == {"c1", "c2"}
OneConn == {"c1"}

\* A connection: where its handler stands, whether the client is still
\* there, the get_market_data call of the current iteration, the local
\* market_data of the loop (unbound until the first quote came back) and
\* what ended the handler.
IdleConn ==
    [pc |-> "none", transport |-> "none", fetch |-> IdleOp,
     market_data |-> "unbound", error |-> "none"]

\* main.py:375-378: any exception is printed and the socket is closed; the
\* handler returns and its locals are gone.
Closed(error) ==
    [IdleConn EXCEPT !.pc = "closed", !.transport = "closed", !.error = error]

ConnUnchanged ==
    UNCHANGED <<gateway_process, gateway_ready, procs, env_file, req,
                last_health, op, fixedVars>>

\* main.py:359-360
WsAccept(c) ==
    /\ serving
    /\ conns[c].pc = "none"
    /\ conns' = [conns EXCEPT ![c] = [@ EXCEPT !.pc = "recv", !.transport = "open"]]
    /\ ConnUnchanged

\* The environment: the client goes away.  The handler learns of it at its
\* next receive or send.
ClientGone(c) ==
    /\ conns[c].transport = "open"
    /\ conns' = [conns EXCEPT ![c].transport = "gone"]
    /\ ConnUnchanged

\* main.py:365-373: a message arrives.  Without a symbol the loop only
\* sleeps; with one it calls get_market_data, whose 503 is an exception that
\* closes the socket.
WsReceive(c, symbol) ==
    /\ serving
    /\ conns[c].pc = "recv"
    /\ conns[c].transport = "open"
    /\ conns' = [conns EXCEPT ![c] =
         IF symbol = "none" THEN [@ EXCEPT !.pc = "sleep"]
         ELSE LET f == Enter("ws_quote", NoOrder, symbol) IN
              IF f.pc = "done" THEN Closed(f.result)
              ELSE [@ EXCEPT !.pc = "fetch", !.fetch = f]]
    /\ ConnUnchanged

\* main.py:365 and 375-378: receive_json raises on a disconnect.
WsDisconnect(c) ==
    /\ serving
    /\ conns[c].pc = "recv"
    /\ conns[c].transport = "gone"
    /\ conns' = [conns EXCEPT ![c] = Closed("disconnect")]
    /\ ConnUnchanged

\* main.py:342-347 inside 370: the contract search of the quote answers.
WsSearchReturn(c, results) ==
    /\ serving
    /\ conns[c].pc = "fetch"
    /\ conns[c].fetch.pc = "search"
    /\ conns' = [conns EXCEPT ![c] =
         LET f == AfterSearch(@.fetch, results) IN
         IF f.pc = "done" THEN Closed(f.result)
         ELSE [@ EXCEPT !.fetch = f]]
    /\ ConnUnchanged

\* main.py:350-355 inside 370, then 371: the snapshot answers and the quote
\* is sent.  To a client that has gone away nothing is delivered: send_json
\* raises, or (depending on the server's websocket implementation) drops
\* the frame and the loop learns of the disconnect at its next receive.
WsSnapshotReturn(c, sendRaises) ==
    /\ serving
    /\ conns[c].pc = "fetch"
    /\ conns[c].fetch.pc = "second"
    /\ conns' = [conns EXCEPT ![c] =
         IF @.transport = "gone" /\ sendRaises THEN Closed("disconnect")
         ELSE [@ EXCEPT !.pc = "sleep", !.fetch = IdleOp,
                        !.market_data = "quote"]]
    /\ ConnUnchanged

\* main.py:342 or 350 inside 370 raises: the exception closes the socket.
WsUpstreamFails(c) ==
    /\ serving
    /\ conns[c].pc = "fetch"
    /\ conns[c].fetch.pc \in {"search", "second"}
    /\ conns' = [conns EXCEPT ![c] = Closed(Failed(@.fetch).result)]
    /\ ConnUnchanged

\* main.py:373
WsSleepDone(c) ==
    /\ serving
    /\ conns[c].pc = "sleep"
    /\ conns' = [conns EXCEPT ![c].pc = "recv"]
    /\ ConnUnchanged

WsStep(K) ==
    \E c \in K :
        \/ WsAccept(c)
        \/ ClientGone(c)
        \/ \E s \in {"none", "AAPL"} : WsReceive(c, s)
        \/ WsDisconnect(c)
        \/ \E s \in SearchLists : WsSearchReturn(c, s)
        \/ \E b \in BOOLEAN : WsSnapshotReturn(c, b)
        \/ WsUpstreamFails(c)
        \/ WsSleepDone(c)

-----------------------------------------------------------------------------
(* The shutdown of the app, main.py:53-58                                  *)

\* A shutdown that also clears the readiness flag.
ShutdownResetsReady ==
    /\ serving
    /\ \A r \in Slots : req[r].pc \in {"idle", "done"}
    /\ op.pc \in {"idle", "done"}
    /\ \A c \in DOMAIN conns : conns[c].pc \in {"none", "closed"}
    /\ serving' = FALSE
    /\ gateway_ready' = FALSE
    /\ procs' = IF gateway_process # 0
                THEN [procs EXCEPT ![gateway_process].alive = FALSE]
                ELSE procs
    /\ UNCHANGED <<gateway_process, env_file, req, last_health,
                   op, conns, session_data, program>>

\* The server runs the shutdown half of lifespan once, after the requests in
\* flight have been answered and the websockets closed: the child that
\* gateway_process refers to is terminated and waited for.  Neither global
\* is written.
Shutdown ==
    /\ serving
    /\ \A r \in Slots : req[r].pc \in {"idle", "done"}
    /\ OpFree
    /\ \A c \in Conns : conns[c].pc \in {"none", "closed"}
    /\ serving' = FALSE
    /\ procs' = IF gateway_process # 0
                THEN [procs EXCEPT ![gateway_process].alive = FALSE]
                ELSE procs
    /\ UNCHANGED <<gateway_process, gateway_ready, env_file, req, last_health,
                   op, conns, session_data, program>>

-----------------------------------------------------------------------------
(* main_simple.py and main_simplified.py: the same routes, served without  *)
(* a gateway.  is_ready of main_simple.py is gateway_ready here.           *)

Variants == {"main_simple.py", "main_simplified.py"}

\* The bodies pydantic accepts for /gateway/start: username and password are
\* any str, the empty one included.
SimCreds ==
    Creds \cup {[username |-> "", password |-> "p1", account |-> "none"]}

VariantUnchanged ==
    UNCHANGED <<gateway_process, procs, env_file, last_health, op, conns,
                serving, program>>

\* main_simple.py:33-45: the credentials are stored and the handler sleeps.
SimpleStart(r, c) ==
    /\ program = "main_simple.py"
    /\ req[r].pc \in {"idle", "done"}
    /\ session_data' = {c}
    /\ req' = [req EXCEPT ![r] = [IdleReq EXCEPT !.pc = "delay"]]
    /\ UNCHANGED gateway_ready
    /\ VariantUnchanged

\* main_simple.py:45-52: asyncio.sleep(2) returns; ready is set and returned.
SimpleDelayDone(r) ==
    /\ program = "main_simple.py"
    /\ req[r].pc = "delay"
    /\ gateway_ready' = TRUE
    /\ req' = [req EXCEPT ![r] = [@ EXCEPT !.pc = "done", !.result = "ready"]]
    /\ UNCHANGED session_data
    /\ VariantUnchanged

\* main_simplified.py:36-64: the credentials are stored; ready is set when
\* username and password are both non-empty.
SimplifiedStart(r, c) ==
    /\ program = "main_simplified.py"
    /\ req[r].pc \in {"idle", "done"}
    /\ session_data' = {c}
    /\ LET ok == c.username # "" /\ c.password # "" IN
       /\ gateway_ready' = IF ok THEN TRUE ELSE gateway_ready
       /\ req' = [req EXCEPT ![r] = [IdleReq EXCEPT
                    !.pc = "done", !.result = IF ok THEN "ready" ELSE "error"]]
    /\ VariantUnchanged

\* main_simple.py:54-81 and main_simplified.py:66-107: /account and
\* /positions answer from literals in the handler; no upstream call is made.
MockData(kind) ==
    /\ program \in Variants
    /\ OpFree
    /\ op' = LET o == [IdleOp EXCEPT !.kind = kind,
                                     !.gate = EnsureReady(gateway_ready)]
             IN  IF o.gate THEN Finish(o, "200")
                 ELSE Finish(o, IF program = "main_simple.py"
                                THEN "503 Not ready"
                                ELSE "503 Gateway not ready")
    /\ UNCHANGED <<gateway_process, gateway_ready, procs, env_file, req,
                   last_health, conns, fixedVars>>

-----------------------------------------------------------------------------
(* Specifications                                                          *)

Init ==
    /\ gateway_process = 0
    /\ gateway_ready = FALSE
    /\ procs = <<>>
    /\ env_file = {}
    /\ req = [r \in Slots |-> IdleReq]
    /\ last_health = {}
    /\ op = IdleOp
    /\ conns = [c \in Conns |-> IdleConn]
    /\ serving = TRUE
    /\ session_data = {}
    /\ program = "main.py"

StartStep(S, C, R) ==
    \E r \in S :
        \/ \E c \in C, f \in StartFaults : StartGateway(r, c, f)
        \/ \E resp \in R : ProbeReturn(r, resp)
        \/ SleepDone(r)

\* One client of /gateway/start, the child processes, /health and the
\* shutdown of the app.
Next ==
    \/ StartStep(Solo, Creds, ProbeResponses)
    \/ \E p \in 1..MaxStarts : ChildExit(p)
    \/ Health
    \/ Shutdown

Spec == Init /\ [][Next]_vars

\* Two clients of /gateway/start whose calls may overlap.
NextConc ==
    \/ StartStep(Duo, OneCred, ConcResponses)
    \/ \E p \in 1..MaxStarts : ChildExit(p)

SpecConc == Init /\ [][NextConc]_vars

\* One client of /gateway/start on its own.  Each await of the loop returns:
\* the probe has a 5 s timeout (main.py:122) and the sleep lasts 2 s.
NextLive ==
    \/ StartStep(Solo, OneCred, ProbeResponses)
    \/ \E p \in 1..MaxStarts : ChildExit(p)

SpecLive ==
    /\ Init
    /\ [][NextLive]_vars
    /\ \A r \in Solo :
         /\ WF_vars(\E resp \in ProbeResponses : ProbeReturn(r, resp))
         /\ WF_vars(SleepDone(r))

\* One client of /gateway/start and the children, which write output as
\* they run.  The awaits of the loop return as in SpecLive, and a running
\* child whose write can go through makes it.
NextPipe ==
    \/ StartStep(Solo, OneCred, ConcResponses)
    \/ \E p \in 1..MaxStarts : ChildExit(p)
    \/ \E p \in 1..MaxStarts : ChildWrites(p)

SpecPipe ==
    /\ Init
    /\ [][NextPipe]_vars
    /\ \A r \in Solo :
         /\ WF_vars(\E resp \in ConcResponses : ProbeReturn(r, resp))
         /\ WF_vars(SleepDone(r))
    /\ \A p \in 1..MaxStarts : WF_vars(ChildWrites(p))

\* Everything of main.py that runs next to gateway_ready: one client of
\* /gateway/start, the children, the shutdown, an HTTP data request and a
\* websocket client asking for quotes.
NextReady ==
    \/ StartStep(Solo, OneCred, ConcResponses)
    \/ \E p \in 1..MaxStarts : ChildExit(p)
    \/ Shutdown
    \/ BeginData("account", "AAPL")
    \/ \E a \in AccountLists : AccountsReturn(a)
    \/ UpstreamFails
    \/ WsAccept("c1")
    \/ WsReceive("c1", "AAPL")
    \/ \E s \in SearchLists : WsSearchReturn("c1", s)
    \/ \E b \in BOOLEAN : WsSnapshotReturn("c1", b)
    \/ WsUpstreamFails("c1")
    \/ WsSleepDone("c1")

SpecReady == Init /\ [][NextReady]_vars

\* One client of /gateway/start next to the data, order and websocket
\* requests that read gateway_ready.
NextOps ==
    \/ StartStep(Solo, OneCred, ConcResponses)
    \/ OpStep(SampleOrders)
    \/ WsStep(OneConn)

SpecOps == Init /\ [][NextOps]_vars

\* The order endpoints on their own, for every order body.  The handlers
\* read gateway_ready and nothing else of the supervisor, so the service is
\* taken as it is before any start or after a start that returned ready.
InitOrders ==
    /\ \/ /\ gateway_ready = FALSE
          /\ gateway_process = 0
          /\ procs = <<>>
          /\ env_file = {}
          /\ req = [r \in Slots |-> IdleReq]
       \/ \E c \in OneCred :
          /\ gateway_ready = TRUE
          /\ gateway_process = 1
          /\ procs = <<[alive |-> TRUE, env |-> ChildEnv(c), out |-> 0]>>
          /\ env_file = {EnvContent(c)}
          /\ req = [r \in Slots |->
                      IF r = "r1"
                      THEN [IdleReq EXCEPT !.pc = "done", !.probes = 1, !.pid = 1,
                                           !.result = "ready",
                                           !.last = [status |-> "200",
                                                     authenticated |-> TRUE,
                                                     competing |-> FALSE]]
                      ELSE IdleReq]
    /\ last_health = {}
    /\ op = IdleOp
    /\ conns = [c \in Conns |-> IdleConn]
    /\ serving = TRUE
    /\ session_data = {}
    /\ program = "main.py"

NextOrders == OpStep(Orders)

SpecOrders == InitOrders /\ [][NextOrders]_vars

\* The quote connections next to the HTTP data and order requests, in a
\* service taken as it is before any start or after a start that returned
\* ready.
NextStream ==
    \/ OpStep(SampleOrders)
    \/ WsStep(Conns)

SpecStream == InitOrders /\ [][NextStream]_vars

\* main_simple.py or main_simplified.py run in place of main.py.
InitSim ==
    /\ gateway_process = 0
    /\ gateway_ready = FALSE
    /\ procs = <<>>
    /\ env_file = {}
    /\ req = [r \in Slots |-> IdleReq]
    /\ last_health = {}
    /\ op = IdleOp
    /\ conns = [c \in Conns |-> IdleConn]
    /\ serving = TRUE
    /\ session_data = {}
    /\ program \in Variants

NextSim ==
    \/ \E r \in Duo, c \in SimCreds : SimpleStart(r, c)
    \/ \E r \in Duo : SimpleDelayDone(r)
    \/ \E r \in Duo, c \in SimCreds : SimplifiedStart(r, c)
    \/ \E k \in {"account", "positions"} : MockData(k)
    \/ Health

SpecSim == InitSim /\ [][NextSim]_vars

-----------------------------------------------------------------------------
(* Properties                                                              *)

Submits(o) == Cardinality({k \in 1..Len(o.calls) : o.calls[k] = "orders"})

\* The price fields an order type needs and the request does not carry.  An
\* option order has no stop price field at all.
LacksLimit(o) == o.order_type \in {"LIMIT", "STOP_LIMIT"} /\ o.limit_price = None
LacksStop(o) ==
    /\ o.order_type \in {"STOP", "STOP_LIMIT"}
    /\ (o.kind = "stock_order" => o.stop_price = None)
MissingRequiredPrice(o) == LacksLimit(o) \/ LacksStop(o)

Unsupported(o) ==
    \/ o.quantity <= 0
    \/ o.side \notin {"BUY", "SELL"}
    \/ o.order_type \notin {"MARKET", "LIMIT", "STOP", "STOP_LIMIT"}

Authenticated(resp) == resp.status = "200" /\ resp.authenticated

\* Whoever has the service call the gateway for data: the HTTP request and
\* the quote loop of each connection.
Callers == {"http"} \cup Conns
Caller(x) == IF x = "http" THEN op ELSE conns[x].fetch

\* C1: two overlapping calls of start never both run the readiness loop, and
\* once both have returned at most one gateway child is running.
C1_OneStartInFlight ==
    /\ Cardinality({r \in Duo : Polling(r)}) <= 1
    /\ (\A r \in Duo : req[r].pc = "done") => Cardinality(Alive) <= 1

\* C2: start terminates the child of an earlier start before it spawns its
\* own, so at most one gateway child is alive in every state.
C2_AtMostOneChildAlive == Cardinality(Alive) <= 1

\* C3: while the gateway is not ready, every data, order and websocket quote
\* request has ended with "503 Gateway not ready" without one upstream call,
\* and no step of such a request touches the gateway process or the flag.
C3_NotReadyRejects ==
    /\ [](~gateway_ready =>
            /\ op.kind # "none" =>
                  /\ op.pc = "done"
                  /\ op.result = "503 Gateway not ready"
                  /\ op.calls = <<>>
            /\ \A c \in Conns :
                  /\ conns[c].pc # "fetch"
                  /\ conns[c].fetch = IdleOp
                  /\ conns[c].market_data = "unbound"
                  /\ conns[c].pc = "closed" =>
                        conns[c].error \in {"503 Gateway not ready", "disconnect"})
    /\ [][op' # op \/ conns' # conns => UNCHANGED gatewayVars]_vars

C3_Witness ==
    /\ ~gateway_ready
    /\ req["r1"].pc = "sleep"
    /\ conns["c1"].pc = "closed"
    /\ conns["c1"].error = "503 Gateway not ready"
    /\ op.kind = "market_data"
    /\ op.result = "503 Gateway not ready"

\* C4: an order that lacks a price its order type requires is refused with
\* InvalidOrderParameters before any upstream call.
C4_MissingPriceRejected ==
    op.kind \in OrderKinds /\ op.gate /\ MissingRequiredPrice(op.order) =>
        /\ op.calls = <<>>
        /\ op.payload = NoPayload
        /\ op.pc = "done"
        /\ op.result = "InvalidOrderParameters"

\* C5: one order request sends at most one order submission upstream, and
\* whatever comes back from it (accepted, rejected, a failed call) ends the
\* request with that outcome and no further call.
C5_SingleSubmission ==
    /\ [](Submits(op) <= 1 /\ (op.pc = "submit" => Submits(op) = 1))
    /\ [][op.pc = "submit" /\ op' # op =>
            /\ op'.pc = "done"
            /\ op'.calls = op.calls
            /\ op'.result \in SubmitReplies \cup {"500 upstream failure"}]_vars

C5_Witness ==
    /\ op.kind = "stock_order"
    /\ op.pc = "done"
    /\ op.result = "rejected"
    /\ Submits(op) = 1

\* C6: an order whose quantity is not positive, or whose side or order type
\* is outside the enumerated sets, is refused with UnsupportedOrderType
\* before any upstream call.
C6_UnsupportedRejected ==
    op.kind \in OrderKinds /\ op.gate /\ Unsupported(op.order) =>
        /\ op.calls = <<>>
        /\ op.payload = NoPayload
        /\ op.pc = "done"
        /\ op.result = "UnsupportedOrderType"

\* C7: the probe that answers 200 with authenticated true ends the start at
\* once: the flag is set, start has returned ready, and no sleep follows that
\* probe (sleeps = probes - 1, so a first-probe success has slept zero times).
C7_ReadyAtFirstAuthenticatedProbe ==
    \A r \in Solo :
        Authenticated(req[r].last) =>
            /\ req[r].pc = "done"
            /\ req[r].result = "ready"
            /\ gateway_ready
            /\ req[r].sleeps = req[r].probes - 1
            /\ req[r].probes = req[r].i + 1

C7_Witness ==
    /\ req["r1"].result = "ready"
    /\ req["r1"].probes = 1
    /\ req["r1"].sleeps = 0
    /\ gateway_ready

\* C8: once the child of a start has exited, the loop of that start begins
\* no further iteration.
C8_NoProbeAfterChildExit ==
    [][\A r \in Solo :
          req[r].pc = "sleep" /\ req'[r].pc = "probe" => procs[req[r].pid].alive]_vars

C10_RestartLeavesReady ==
    \A r \in Solo :
        /\ Polling(r) => ~gateway_ready
        /\ req[r].pc = "done" /\ req[r].result # "ready" => ~gateway_ready

\* C11: the ready flag is set only by a step at which a health probe of that
\* start came back authenticated, and an account or positions request that
\* answers 200 has made an upstream call (neither variant has a
\* simulation-mode flag that would allow otherwise).
C11_ReadyOnlyAfterProbe ==
    /\ [][~gateway_ready /\ gateway_ready' =>
            \E r \in Slots : /\ req[r].pc = "probe"
                             /\ req'[r].result = "ready"
                             /\ Authenticated(req'[r].last)]_vars
    /\ [](op.kind \in {"account", "positions"} /\ op.result = "200" =>
            op.calls # <<>>)

\* C12: the credentials given to start are never written to a file: the
\* gateway child gets them through its environment only, and the env file
\* of the gateway stays absent.
C12_CredentialsNeverOnDisk ==
    \A f \in env_file : /\ f.IBEAM_ACCOUNT \notin {c.username : c \in Creds}
                        /\ f.IBEAM_PASSWORD \notin {c.password : c \in Creds}

Lookups(o) == Cardinality({k \in 1..Len(o.calls) : o.calls[k] = "search"})

\* The contract search of a request came back with no match.
ZeroMatches(o) ==
    /\ o.pc = "done"
    /\ o.calls # <<>>
    /\ o.calls[Len(o.calls)] = "search"
    /\ o.result # "500 upstream failure"

NotFound == {"404 Symbol not found", "404 Option contract not found"}

\* C13: a request that resolves a symbol sends exactly one contract search;
\* when the search has no match the request fails as not found and posts no
\* order; the id used is the first match of a search, and it is cached, so
\* that two requests never hold different ids for one symbol.
C13_ResolveOnce ==
    /\ \A x \in Callers :
         /\ Lookups(Caller(x)) <= 1
         /\ Caller(x).conid # 0 =>
              /\ Lookups(Caller(x)) = 1
              /\ Caller(x).conid \in {s[1] : s \in SearchLists \ {<<>>}}
         /\ ZeroMatches(Caller(x)) =>
              /\ Caller(x).result \in NotFound
              /\ Submits(Caller(x)) = 0
    /\ \A x, y \in Callers :
         /\ Caller(x).conid # 0
         /\ Caller(y).conid # 0
         /\ Caller(x).query = Caller(y).query
         => Caller(x).conid = Caller(y).conid

\* A step at which the request of caller x sends a contract search.
IssuesLookup(x) == Caller(x).pc # "search" /\ Caller(x)'.pc = "search"

\* C14: once a request has resolved a symbol, no request (stock order,
\* option order, market data, websocket quote) sends another contract
\* search for that symbol: the id comes from the cache.
C14_SecondResolveUsesCache ==
    [][\A x, y \in Callers :
          Caller(y).conid # 0 /\ IssuesLookup(x) =>
              Caller(x)'.query # Caller(y).query]_vars

\* C15: at most one contract search for one symbol is in flight at any
\* time, however many requests resolve that symbol at once.
C15_OneLookupInFlightPerKey ==
    \A x, y \in Callers :
        /\ Caller(x).pc = "search"
        /\ Caller(y).pc = "search"
        /\ Caller(x).query = Caller(y).query
        => x = y

\* The connections on whose behalf an upstream quote request for a symbol
\* is in flight: each is a poller of its own.
Pollers(symbol) ==
    {c \in Conns : conns[c].pc = "fetch" /\ conns[c].fetch.symbol = symbol}

\* C16: upstream quote requests for one symbol come from one poller,
\* whatever the number of subscribers (they are never in flight once per
\* connection), and from none once no subscriber is connected.
C16_OnePollerPerSymbol ==
    /\ Cardinality(Pollers("AAPL")) <= 1
    /\ (\A c \in Conns : conns[c].transport # "open") => Pollers("AAPL") = {}

\* C17: once the client of a connection has gone, no upstream request is
\* sent on its behalf any more: its quote loop makes no further call.
C17_NoRequestAfterDisconnect ==
    [][\A c \in Conns :
          conns[c].transport = "gone" =>
              \/ conns'[c].fetch.calls = conns[c].fetch.calls
              \/ conns'[c].fetch.calls = <<>>]_vars

\* C18: a connection that has been sent a quote gets the next ones without
\* asking: while its client is there, its loop never waits for a message.
C18_TicksWithoutFurtherRequest ==
    \A c \in Conns :
        conns[c].market_data = "quote" /\ conns[c].transport = "open" =>
            conns[c].pc # "recv"

\* C19: a failed upstream call never ends a connection: a handler that has
\* closed its socket did so because the client had gone.
C19_FailureKeepsStreamOpen ==
    \A c \in Conns : conns[c].pc = "closed" => conns[c].error = "disconnect"

\* C20: after stop the gateway is Stopped: not ready, no process handle and
\* no gateway child of that handle alive.
C20_StopLeavesStopped ==
    ~serving => /\ ~gateway_ready
                /\ gateway_process = 0
                /\ gateway_process \notin Alive

\* C21: the output of a gateway child is drained for as long as the child
\* runs, so a child that has filled its pipe always gets to proceed.
C21_ChildNeverBlocksForever ==
    \A p \in 1..MaxStarts : [](Blocked(p) => <>~Blocked(p))

\* C22: the payload posted for a stock order carries the first account, the
\* first search match and the order type, side, quantity and time in force
\* of the request; it has a price exactly when the request gave a limit
\* price and an auxPrice exactly when it gave a stop price, 0 included.
C22_StockPayloadFaithful ==
    op.kind = "stock_order" /\ op.payload # NoPayload =>
        /\ Submits(op) = 1
        /\ op.payload.acctId = op.acct
        /\ op.acct \in {a[1] : a \in AccountLists \ {<<>>}}
        /\ op.payload.conid = op.conid
        /\ op.conid \in {s[1] : s \in SearchLists \ {<<>>}}
        /\ op.payload.orderType = op.order.order_type
        /\ op.payload.side = op.order.side
        /\ op.payload.quantity = op.order.quantity
        /\ op.payload.tif = op.order.time_in_force
        /\ "price" \in DOMAIN op.payload <=> op.order.limit_price # None
        /\ "price" \in DOMAIN op.payload =>
              op.payload.price = op.order.limit_price[1]
        /\ "auxPrice" \in DOMAIN op.payload <=> op.order.stop_price # None
        /\ "auxPrice" \in DOMAIN op.payload =>
              op.payload.auxPrice = op.order.stop_price[1]

\* C23: gateway_ready starts false, becomes true only at a probe of a start
\* that answered 200 with authenticated true, and no step (a failed start,
\* a data request, the websocket loop, an exited child, the shutdown) makes
\* it false again; so a request that begins while it is true passes the
\* readiness check, whatever has become of the gateway process.
C23_ReadyIsMonotone ==
    /\ [](Len(procs) = 0 => ~gateway_ready)
    /\ [][gateway_ready => gateway_ready']_vars
    /\ [][~gateway_ready /\ gateway_ready' =>
            \E r \in Slots : /\ req[r].pc = "probe"
                             /\ req'[r].pc = "done"
                             /\ req'[r].last.status = "200"
                             /\ req'[r].last.authenticated]_vars
    /\ [][gateway_ready /\ serving /\ op' # op /\ op.pc \in {"idle", "done"} =>
            op'.gate /\ op'.pc # "done"]_vars

C23_Witness ==
    /\ gateway_ready
    /\ Alive = {}
    /\ req["r1"].pc = "done"
    /\ req["r1"].result = "timeout"
    /\ op.kind = "account"
    /\ op.gate
    /\ op.pc = "accounts"
    /\ conns["c1"].pc = "sleep"

\* The probe of start r has just come back with this answer.
Answered(r, authenticated, competing) ==
    /\ req[r].pc = "probe"
    /\ req'[r] # req[r]
    /\ req'[r].last.status = "200"
    /\ req'[r].last.authenticated = authenticated
    /\ req'[r].last.competing = competing

\* C24: a probe that answers 200 with authenticated false and competing
\* true ends the start with an error result: no probe follows, the ready
\* flag is as it was, and the child of that start keeps running and stays
\* the one gateway_process refers to; with both flags true the start
\* returns ready.
C24_CompetingEndsStart ==
    /\ [][\A r \in Solo :
            /\ Answered(r, FALSE, TRUE) =>
                 /\ req'[r].pc = "done"
                 /\ req'[r].result = "error"
                 /\ req'[r].probes = req[r].probes
                 /\ gateway_ready' = gateway_ready
                 /\ procs' = procs
                 /\ gateway_process' = req[r].pid
            /\ Answered(r, TRUE, TRUE) =>
                 /\ req'[r].pc = "done"
                 /\ req'[r].result = "ready"
                 /\ gateway_ready']_vars
    /\ [][\A r \in Solo :
            req[r].result = "error" /\ req'[r].result = "error" =>
                req'[r] = req[r]]_vars

C24_Witness ==
    /\ req["r1"].result = "error"
    /\ req["r1"].probes = 2
    /\ req["r1"].last.competing
    /\ ~req["r1"].last.authenticated
    /\ ~gateway_ready
    /\ gateway_process = req["r1"].pid
    /\ procs[gateway_process].alive

====
